---- MODULE Spec2Model ----
(***************************************************************************)
(* Model of the fitness tracker: package daysteps (parsePackage,           *)
(* DayActionInfo) and package spentcalories (parseTraining, distance,      *)
(* meanSpeed, TrainingInfo, RunningSpentCalories, WalkingSpentCalories).   *)
(*                                                                         *)
(* Representation.                                                         *)
(*  - A Go string is a sequence of one-character strings.  The module is   *)
(*    ASCII only, so the two Cyrillic activity labels of the source are    *)
(*    written in transliteration (Beg = running, Hodba = walking) and the  *)
(*    two micro signs of time.ParseDuration's unit table are the symbols   *)
(*    "MICRO" and "MU".                                                    *)
(*  - A float64 is an exact rational [n, d], d > 0, in lowest terms.  NaN  *)
(*    and the infinities are not modelled.                                 *)
(*  - A time.Duration is a rational number of milliseconds (the source     *)
(*    counts int64 nanoseconds, wider than TLC's integers); the            *)
(*    truncation of a fraction to whole nanoseconds is kept, and so is the *)
(*    overflow of a term's leading integer; the overflow of a product or   *)
(*    of the sum of the terms is not (inputs stay far below it).           *)
(*  - An error is the sequence of the messages of its %w chain, outermost  *)
(*    first; nil is the empty sequence.                                    *)
(***************************************************************************)
EXTENDS Integers, Sequences, FiniteSets, TLC

VARIABLES pc, call, ret

vars == <<pc, call, ret>>

---------------------------------------------------------------------------
(* Bind(v, F) is F(v) with v computed once: the value of v is handed to F  *)
(* as a bound variable, where LET would compute it again at every use.     *)

Bind(v, F(_)) == CHOOSE r \in {F(x) : x \in {v}} : TRUE

Bind2(v, w, F(_, _)) == CHOOSE r \in {F(x, y) : x \in {v}, y \in {w}} : TRUE

---------------------------------------------------------------------------
(* float64 arithmetic as exact rationals *)

RECURSIVE GCD(_, _)
GCD(a, b) == IF b = 0 THEN a ELSE Bind2(b, a % b, LAMBDA x, y : GCD(x, y))

Abs(x) == IF x < 0 THEN -x ELSE x

Norm(n, d) ==
    Bind2(n, d, LAMBDA x, y :
      Bind(GCD(Abs(x), Abs(y)), LAMBDA g :
        IF y < 0 THEN [n |-> (-x) \div g, d |-> (-y) \div g]
        ELSE [n |-> x \div g, d |-> y \div g]))

Rat(n, d) == Norm(n, d)

Int2Rat(i) == [n |-> i, d |-> 1]

RMul(a, b) ==
    Bind2(a, b, LAMBDA x, y :
      IF x.n = 0 \/ y.n = 0 THEN [n |-> 0, d |-> 1]
      ELSE Bind2(GCD(Abs(x.n), y.d), GCD(Abs(y.n), x.d), LAMBDA g1, g2 :
             Norm((x.n \div g1) * (y.n \div g2),
                  (x.d \div g2) * (y.d \div g1))))

RDiv(a, b) == Bind(b, LAMBDA y : RMul(a, Norm(y.d, y.n)))

RAdd(a, b) ==
    Bind2(a, b, LAMBDA x, y : Norm(x.n * y.d + y.n * x.d, x.d * y.d))

RNeg(a) == Bind(a, LAMBDA x : [n |-> -x.n, d |-> x.d])

RLeqZero(a) == a.n <= 0

---------------------------------------------------------------------------
(* errors *)

nil == <<>>

ErrorsNew(msg) == <<msg>>

\* fmt.Errorf("<msg>: %w", err)
Errorf(msg, err) == <<msg>> \o err

---------------------------------------------------------------------------
(* strings *)

Digits == {"0", "1", "2", "3", "4", "5", "6", "7", "8", "9"}

DigitVal(c) ==
    CASE c = "0" -> 0 [] c = "1" -> 1 [] c = "2" -> 2 [] c = "3" -> 3
      [] c = "4" -> 4 [] c = "5" -> 5 [] c = "6" -> 6 [] c = "7" -> 7
      [] c = "8" -> 8 [] c = "9" -> 9

DigitChar(v) ==
    CASE v = 0 -> "0" [] v = 1 -> "1" [] v = 2 -> "2" [] v = 3 -> "3"
      [] v = 4 -> "4" [] v = 5 -> "5" [] v = 6 -> "6" [] v = 7 -> "7"
      [] v = 8 -> "8" [] v = 9 -> "9"

Range(s) == {s[i] : i \in 1..Len(s)}

\* s[k:] of Go
Drop(s, k) == Bind(s, LAMBDA t : SubSeq(t, k + 1, Len(t)))

\* the length of the longest prefix of s whose characters are all in set
PrefixIn(s, set) ==
    Bind(s, LAMBDA t :
      CHOOSE k \in 0..Len(t) :
        /\ \A j \in 1..k : t[j] \in set
        /\ k < Len(t) => t[k + 1] \notin set)

\* the length of the longest prefix of s made of digits
DigitPrefix(s) == PrefixIn(s, Digits)

\* the value of the first k digits of t
RECURSIVE DigitsValueTo(_, _)
DigitsValueTo(t, k) ==
    IF k = 0 THEN 0
    ELSE Bind2(t, k - 1, LAMBDA u, j : 10 * DigitsValueTo(u, j) + DigitVal(u[k]))

\* the value of a sequence of digits
DigitsValue(s) == Bind(s, LAMBDA t : DigitsValueTo(t, Len(t)))

StripZeros(s) == Drop(s, PrefixIn(s, {"0"}))

\* strings.Split(data, sep) for a one-character separator
RECURSIVE Split(_, _)
Split(s, sep) ==
    Bind(s, LAMBDA t :
      IF \A i \in 1..Len(t) : t[i] # sep THEN <<t>>
      ELSE Bind(CHOOSE k \in 1..Len(t) :
                  t[k] = sep /\ \A j \in 1..(k - 1) : t[j] # sep,
                LAMBDA i :
                  Bind(Drop(t, i), LAMBDA rest :
                    <<SubSeq(t, 1, i - 1)>> \o Split(rest, sep))))

\* the digits of a natural number
RECURSIVE NatDigits(_)
NatDigits(v) ==
    IF v < 10 THEN <<DigitChar(v)>>
    ELSE Bind(v \div 10, LAMBDA w : NatDigits(w)) \o <<DigitChar(v % 10)>>

\* strconv.Itoa, and fmt's %d
Itoa(v) ==
    Bind(v, LAMBDA w :
      IF w < 0 THEN <<"-">> \o NatDigits(-w) ELSE NatDigits(w))

---------------------------------------------------------------------------
(* strconv.Atoi: an optional sign and at least one decimal digit; a value  *)
(* outside int64 is ErrRange.  The bound is compared digit by digit.       *)

MaxInt64Digits ==
    <<"9","2","2","3","3","7","2","0","3","6","8","5","4","7","7","5","8","0","7">>

\* a > b for two digit sequences of the same length
DigitsGreater(a, b) ==
    \E i \in 1..Len(a) :
        /\ DigitVal(a[i]) > DigitVal(b[i])
        /\ \A j \in 1..(i - 1) : a[j] = b[j]

\* the magnitude exceeds 1<<63 - 1 (a negative literal may reach 1<<63)
OutOfInt64(digits, neg) ==
    Bind2(StripZeros(digits),
          IF neg THEN SubSeq(MaxInt64Digits, 1, 18) \o <<"8">>
          ELSE MaxInt64Digits,
          LAMBDA z, top :
            \/ Len(z) > Len(top)
            \/ Len(z) = Len(top) /\ DigitsGreater(z, top))

ErrSyntax == <<"strconv.Atoi: invalid syntax">>

ErrRange == <<"strconv.Atoi: value out of range">>

Atoi(s) ==
    Bind(s, LAMBDA t :
      Bind2(t # <<>> /\ Head(t) = "-",
            IF t # <<>> /\ Head(t) \in {"+", "-"} THEN Tail(t) ELSE t,
            LAMBDA neg, body :
              IF body = <<>> \/ DigitPrefix(body) # Len(body)
              THEN [val |-> 0, err |-> ErrSyntax]
              ELSE IF OutOfInt64(body, neg)
              THEN [val |-> 0, err |-> ErrRange]
              ELSE [val |-> IF neg THEN -DigitsValue(body)
                            ELSE DigitsValue(body),
                    err |-> nil]))

---------------------------------------------------------------------------
(* time.ParseDuration: an optional sign, then either "0" or one or more    *)
(* terms; a term is digits, an optional '.' and digits (at least one digit *)
(* in all), and a unit of unitMap.  A Duration is a rational number of     *)
(* milliseconds.                                                           *)

ErrInvalidDuration == <<"time: invalid duration">>

ErrMissingUnit == <<"time: missing unit in duration">>

ErrUnknownUnit == <<"time: unknown unit in duration">>

Zero == [n |-> 0, d |-> 1]

\* unitMap of package time, in milliseconds; Zero when the unit is not in it
unitMap(u) ==
    CASE u = <<"n", "s">> -> Rat(1, 1000000)
      [] u = <<"u", "s">> -> Rat(1, 1000)
      [] u = <<"MICRO", "s">> -> Rat(1, 1000)
      [] u = <<"MU", "s">> -> Rat(1, 1000)
      [] u = <<"m", "s">> -> Rat(1, 1)
      [] u = <<"s">> -> Rat(1000, 1)
      [] u = <<"m">> -> Rat(60000, 1)
      [] u = <<"h">> -> Rat(3600000, 1)
      [] OTHER -> Zero

RECURSIVE Pow10(_)
Pow10(k) == IF k = 0 THEN 1 ELSE 10 * Pow10(k - 1)

\* uint64(float64(f) * (float64(unit) / scale)): whole nanoseconds only
TruncNs(x) ==
    Bind(x, LAMBDA y :
      IF 1000000 % y.d = 0 THEN y
      ELSE RAdd(Int2Rat(y.n \div y.d),
                Rat(((y.n % y.d) * 1000000) \div y.d, 1000000)))

\* one term at the head of s: its digits, fraction digits and unit, and
\* the rest of s
leadingTerm(s) ==
    Bind(s, LAMBDA t :
      Bind(DigitPrefix(t), LAMBDA ni :
        Bind(Drop(t, ni), LAMBDA s1 :
          Bind(s1 # <<>> /\ Head(s1) = ".", LAMBDA dot :
            Bind(IF dot THEN Tail(s1) ELSE s1, LAMBDA s2 :
              Bind(IF dot THEN DigitPrefix(s2) ELSE 0, LAMBDA nf :
                Bind(Drop(s2, nf), LAMBDA s3 :
                  Bind(PrefixIn(s3, {c \in Range(s3) : c # "." /\ c \notin Digits}),
                       LAMBDA nu :
                         [int |-> SubSeq(t, 1, ni),
                          frac |-> SubSeq(s2, 1, nf),
                          unit |-> SubSeq(s3, 1, nu),
                          rest |-> Drop(s3, nu)]))))))))

\* the loop of ParseDuration over the terms that are left, d the sum so far
RECURSIVE parseTerms(_, _)
parseTerms(s, d) ==
    IF s = <<>> THEN [d |-> d, err |-> nil]
    ELSE IF Head(s) # "." /\ Head(s) \notin Digits
    THEN [d |-> Zero, err |-> ErrInvalidDuration]
    ELSE
      Bind2(leadingTerm(s), d, LAMBDA m, sum :
        Bind(unitMap(m.unit), LAMBDA unit :
          IF OutOfInt64(m.int, TRUE)
          THEN [d |-> Zero, err |-> ErrInvalidDuration]
          ELSE IF m.int = <<>> /\ m.frac = <<>>
          THEN [d |-> Zero, err |-> ErrInvalidDuration]
          ELSE IF m.unit = <<>>
          THEN [d |-> Zero, err |-> ErrMissingUnit]
          ELSE IF unit = Zero
          THEN [d |-> Zero, err |-> ErrUnknownUnit]
          ELSE
            Bind2(RMul(Int2Rat(DigitsValue(m.int)), unit),
                  TruncNs(RMul(Rat(DigitsValue(m.frac), Pow10(Len(m.frac))),
                               unit)),
                  LAMBDA v, f :
                    Bind(RAdd(sum, RAdd(v, f)), LAMBDA next :
                      parseTerms(m.rest, next)))))

ParseDuration(s) ==
    Bind(s, LAMBDA t :
      Bind2(t # <<>> /\ Head(t) = "-",
            IF t # <<>> /\ Head(t) \in {"+", "-"} THEN Tail(t) ELSE t,
            LAMBDA neg, body :
              IF body = <<"0">> THEN [d |-> Zero, err |-> nil]
              ELSE IF body = <<>> THEN [d |-> Zero, err |-> ErrInvalidDuration]
              ELSE Bind(parseTerms(body, Zero), LAMBDA r :
                     IF r.err # nil THEN r
                     ELSE [d |-> IF neg THEN RNeg(r.d) ELSE r.d,
                           err |-> nil])))

\* Duration.Hours and Duration.Minutes
Hours(d) == RDiv(d, Rat(3600000, 1))

Minutes(d) == RDiv(d, Rat(60000, 1))

---------------------------------------------------------------------------
(* fmt.Sprintf verbs.  A text is a sequence of lines [label, value]; the   *)
(* label is the fixed part of the template, the value the formatted verb.  *)
(* The empty string is the empty sequence.                                 *)

EmptyString == <<>>

\* the hundredths nearest to rem/d, 0 <= rem < d, ties to even
RoundCents(rem, d) ==
    Bind2((rem * 100) \div d, (rem * 100) % d, LAMBDA q, r :
      IF 2 * r > d \/ (2 * r = d /\ q % 2 = 1) THEN q + 1 ELSE q)

\* %.2f: two decimals, rounded to nearest, ties to even
Fmt2f(x) ==
    Bind(x, LAMBDA y :
      Bind(Abs(y.n), LAMBDA a :
        Bind((a \div y.d) * 100 + RoundCents(a % y.d, y.d), LAMBDA cents :
          (IF y.n < 0 THEN <<"-">> ELSE <<>>)
            \o Itoa(cents \div 100)
            \o <<".", DigitChar((cents % 100) \div 10),
                 DigitChar(cents % 10)>>)))

Line(label, value) == [label |-> label, value |-> value]

---------------------------------------------------------------------------
(* package spentcalories *)

mInKm == 1000

minInH == 60

stepLengthCoefficient == Rat(45, 100)

walkingCaloriesCoefficient == Rat(1, 2)

\* the two activity labels TrainingInfo switches on, transliterated
Beg == <<"B", "e", "g">>

Hodba == <<"H", "o", "d", "b", "a">>

\* parseTraining with the check of the duration left out
parseTrainingAnyDuration(data) ==
    Bind(Split(data, ","), LAMBDA parts :
      IF Len(parts) # 3
      THEN [steps |-> 0, activity |-> <<>>, d |-> Zero,
            err |-> ErrorsNew("bad data format")]
      ELSE
        Bind(Atoi(parts[1]), LAMBDA a :
          IF a.err # nil
          THEN [steps |-> 0, activity |-> <<>>, d |-> Zero,
                err |-> Errorf("failed to extract steps", a.err)]
          ELSE IF a.val <= 0
          THEN [steps |-> 0, activity |-> <<>>, d |-> Zero,
                err |-> ErrorsNew("steps is not positive")]
          ELSE
            Bind(ParseDuration(parts[3]), LAMBDA p :
              IF p.err # nil
              THEN [steps |-> 0, activity |-> <<>>, d |-> Zero,
                    err |-> Errorf("failed to extract duration", p.err)]
              ELSE [steps |-> a.val, activity |-> parts[2], d |-> p.d,
                    err |-> nil])))

\* parseTraining with the label taken from the wrong field
parseTrainingWrongField(data) ==
    Bind(Split(data, ","), LAMBDA parts :
      IF Len(parts) # 3
      THEN [steps |-> 0, activity |-> <<>>, d |-> Zero,
            err |-> ErrorsNew("bad data format")]
      ELSE
        Bind(Atoi(parts[1]), LAMBDA a :
          IF a.err # nil
          THEN [steps |-> 0, activity |-> <<>>, d |-> Zero,
                err |-> Errorf("failed to extract steps", a.err)]
          ELSE IF a.val <= 0
          THEN [steps |-> 0, activity |-> <<>>, d |-> Zero,
                err |-> ErrorsNew("steps is not positive")]
          ELSE
            Bind(ParseDuration(parts[3]), LAMBDA p :
              IF p.err # nil
              THEN [steps |-> 0, activity |-> <<>>, d |-> Zero,
                    err |-> Errorf("failed to extract duration", p.err)]
              ELSE IF RLeqZero(p.d)
              THEN [steps |-> 0, activity |-> <<>>, d |-> Zero,
                    err |-> ErrorsNew("duration is not positive")]
              ELSE [steps |-> a.val, activity |-> parts[1], d |-> p.d,
                    err |-> nil])))

parseTraining(data) ==
    Bind(Split(data, ","), LAMBDA parts :
      IF Len(parts) # 3
      THEN [steps |-> 0, activity |-> <<>>, d |-> Zero,
            err |-> ErrorsNew("bad data format")]
      ELSE
        Bind(Atoi(parts[1]), LAMBDA a :
          IF a.err # nil
          THEN [steps |-> 0, activity |-> <<>>, d |-> Zero,
                err |-> Errorf("failed to extract steps", a.err)]
          ELSE IF a.val <= 0
          THEN [steps |-> 0, activity |-> <<>>, d |-> Zero,
                err |-> ErrorsNew("steps is not positive")]
          ELSE
            Bind(ParseDuration(parts[3]), LAMBDA p :
              IF p.err # nil
              THEN [steps |-> 0, activity |-> <<>>, d |-> Zero,
                    err |-> Errorf("failed to extract duration", p.err)]
              ELSE IF RLeqZero(p.d)
              THEN [steps |-> 0, activity |-> <<>>, d |-> Zero,
                    err |-> ErrorsNew("duration is not positive")]
              ELSE [steps |-> a.val, activity |-> parts[2], d |-> p.d,
                    err |-> nil])))

distance(steps, height) ==
    Bind(RMul(height, stepLengthCoefficient), LAMBDA length :
      RDiv(RMul(Int2Rat(steps), length), Int2Rat(mInKm)))

\* meanSpeed without its guard on the duration
meanSpeedNoGuard(steps, height, duration) ==
    Bind(distance(steps, height), LAMBDA dist : RDiv(dist, Hours(duration)))

meanSpeed(steps, height, duration) ==
    Bind(duration, LAMBDA dur :
      IF RLeqZero(dur) THEN Zero
      ELSE Bind(distance(steps, height), LAMBDA dist :
             RDiv(dist, Hours(dur))))

RunningSpentCalories(steps, weight, height, duration) ==
    Bind2(weight, duration, LAMBDA w, dur :
      IF steps <= 0
      THEN [value |-> Zero, err |-> ErrorsNew("steps is not positive")]
      ELSE IF RLeqZero(w)
      THEN [value |-> Zero, err |-> ErrorsNew("weight is not positive")]
      ELSE IF RLeqZero(dur)
      THEN [value |-> Zero, err |-> ErrorsNew("duration is not positive")]
      ELSE
        Bind(meanSpeed(steps, height, dur), LAMBDA ms :
          [value |-> RDiv(RMul(RMul(w, ms), Minutes(dur)), Int2Rat(minInH)),
           err |-> nil]))

\* WalkingSpentCalories without the walking coefficient
WalkingSpentCaloriesNoCoefficient(steps, weight, height, duration) ==
    Bind2(weight, height, LAMBDA w, h :
      IF steps <= 0
      THEN [value |-> Zero, err |-> ErrorsNew("steps is not positive")]
      ELSE IF RLeqZero(w)
      THEN [value |-> Zero, err |-> ErrorsNew("weight is not positive")]
      ELSE IF RLeqZero(h)
      THEN [value |-> Zero, err |-> ErrorsNew("height is not positive")]
      ELSE
        Bind2(meanSpeed(steps, h, duration), Minutes(duration), LAMBDA ms, minutes :
          Bind(RMul(RMul(w, ms), minutes), LAMBDA calories :
            [value |-> RDiv(calories, Int2Rat(minInH)), err |-> nil])))

WalkingSpentCalories(steps, weight, height, duration) ==
    Bind2(weight, height, LAMBDA w, h :
      IF steps <= 0
      THEN [value |-> Zero, err |-> ErrorsNew("steps is not positive")]
      ELSE IF RLeqZero(w)
      THEN [value |-> Zero, err |-> ErrorsNew("weight is not positive")]
      ELSE IF RLeqZero(h)
      THEN [value |-> Zero, err |-> ErrorsNew("height is not positive")]
      ELSE
        Bind2(meanSpeed(steps, h, duration), Minutes(duration), LAMBDA ms, minutes :
          Bind(RMul(RMul(w, ms), minutes), LAMBDA calories :
            Bind(RDiv(calories, Int2Rat(minInH)), LAMBDA caloriesSpent :
              [value |-> RMul(caloriesSpent, walkingCaloriesCoefficient),
               err |-> nil]))))

\* the five lines of TrainingInfo's template
TrainingText(activity, d, dist, speed, calories) ==
    << Line("Tip trenirovki", activity),
       Line("Dlitelnost", Fmt2f(Hours(d))),
       Line("Distanciya", Fmt2f(dist)),
       Line("Skorost", Fmt2f(speed)),
       Line("Sozhgli kaloriy", Fmt2f(calories)) >>

\* TrainingInfo with the two labels of the switch exchanged
TrainingInfoSwapped(data, weight, height) ==
    Bind(parseTraining(data), LAMBDA t :
      IF t.err # nil
      THEN [text |-> EmptyString, err |-> Errorf("parseTraining", t.err)]
      ELSE IF t.activity = Hodba
      THEN Bind(RunningSpentCalories(t.steps, weight, height, t.d), LAMBDA c :
             IF c.err # nil
             THEN [text |-> EmptyString,
                   err |-> Errorf("RunningSpentCalories", c.err)]
             ELSE [text |-> TrainingText(t.activity, t.d,
                                         distance(t.steps, height),
                                         meanSpeed(t.steps, height, t.d),
                                         c.value),
                   err |-> nil])
      ELSE IF t.activity = Beg
      THEN Bind(WalkingSpentCalories(t.steps, weight, height, t.d), LAMBDA c :
             IF c.err # nil
             THEN [text |-> EmptyString,
                   err |-> Errorf("WalkingSpentCalories", c.err)]
             ELSE [text |-> TrainingText(t.activity, t.d,
                                         distance(t.steps, height),
                                         meanSpeed(t.steps, height, t.d),
                                         c.value),
                   err |-> nil])
      ELSE [text |-> EmptyString, err |-> ErrorsNew("unknown training type")])

\* TrainingInfo returning the error of parseTraining as it is
TrainingInfoBareParseError(data, weight, height) ==
    Bind(parseTraining(data), LAMBDA t :
      IF t.err # nil
      THEN [text |-> EmptyString, err |-> t.err]
      ELSE IF t.activity = Beg
      THEN Bind(RunningSpentCalories(t.steps, weight, height, t.d), LAMBDA c :
             IF c.err # nil
             THEN [text |-> EmptyString,
                   err |-> Errorf("RunningSpentCalories", c.err)]
             ELSE [text |-> TrainingText(t.activity, t.d,
                                         distance(t.steps, height),
                                         meanSpeed(t.steps, height, t.d),
                                         c.value),
                   err |-> nil])
      ELSE IF t.activity = Hodba
      THEN Bind(WalkingSpentCalories(t.steps, weight, height, t.d), LAMBDA c :
             IF c.err # nil
             THEN [text |-> EmptyString,
                   err |-> Errorf("WalkingSpentCalories", c.err)]
             ELSE [text |-> TrainingText(t.activity, t.d,
                                         distance(t.steps, height),
                                         meanSpeed(t.steps, height, t.d),
                                         c.value),
                   err |-> nil])
      ELSE [text |-> EmptyString, err |-> ErrorsNew("unknown training type")])

TrainingInfo(data, weight, height) ==
    Bind(parseTraining(data), LAMBDA t :
      IF t.err # nil
      THEN [text |-> EmptyString, err |-> Errorf("parseTraining", t.err)]
      ELSE IF t.activity = Beg
      THEN Bind(RunningSpentCalories(t.steps, weight, height, t.d), LAMBDA c :
             IF c.err # nil
             THEN [text |-> EmptyString,
                   err |-> Errorf("RunningSpentCalories", c.err)]
             ELSE [text |-> TrainingText(t.activity, t.d,
                                         distance(t.steps, height),
                                         meanSpeed(t.steps, height, t.d),
                                         c.value),
                   err |-> nil])
      ELSE IF t.activity = Hodba
      THEN Bind(WalkingSpentCalories(t.steps, weight, height, t.d), LAMBDA c :
             IF c.err # nil
             THEN [text |-> EmptyString,
                   err |-> Errorf("WalkingSpentCalories", c.err)]
             ELSE [text |-> TrainingText(t.activity, t.d,
                                         distance(t.steps, height),
                                         meanSpeed(t.steps, height, t.d),
                                         c.value),
                   err |-> nil])
      ELSE [text |-> EmptyString, err |-> ErrorsNew("unknown training type")])

---------------------------------------------------------------------------
(* package daysteps *)

stepLength == Rat(65, 100)

daysteps_mInKm == 1000

\* parsePackage with steps < 0 where the source has steps <= 0
parsePackageZeroSteps(data) ==
    Bind(Split(data, ","), LAMBDA parts :
      IF Len(parts) # 2
      THEN [steps |-> 0, d |-> Zero, err |-> ErrorsNew("bad data format")]
      ELSE
        Bind(Atoi(parts[1]), LAMBDA a :
          IF a.err # nil
          THEN [steps |-> 0, d |-> Zero,
                err |-> Errorf("failed to extract steps", a.err)]
          ELSE IF a.val < 0
          THEN [steps |-> 0, d |-> Zero,
                err |-> ErrorsNew("steps must be positive")]
          ELSE
            Bind(ParseDuration(parts[2]), LAMBDA p :
              IF p.err # nil
              THEN [steps |-> 0, d |-> Zero,
                    err |-> Errorf("failed to extract duration", p.err)]
              ELSE IF RLeqZero(p.d)
              THEN [steps |-> 0, d |-> Zero,
                    err |-> ErrorsNew("duration is not positive")]
              ELSE [steps |-> a.val, d |-> p.d, err |-> nil])))

parsePackage(data) ==
    Bind(Split(data, ","), LAMBDA parts :
      IF Len(parts) # 2
      THEN [steps |-> 0, d |-> Zero, err |-> ErrorsNew("bad data format")]
      ELSE
        Bind(Atoi(parts[1]), LAMBDA a :
          IF a.err # nil
          THEN [steps |-> 0, d |-> Zero,
                err |-> Errorf("failed to extract steps", a.err)]
          ELSE IF a.val <= 0
          THEN [steps |-> 0, d |-> Zero,
                err |-> ErrorsNew("steps must be positive")]
          ELSE
            Bind(ParseDuration(parts[2]), LAMBDA p :
              IF p.err # nil
              THEN [steps |-> 0, d |-> Zero,
                    err |-> Errorf("failed to extract duration", p.err)]
              ELSE IF RLeqZero(p.d)
              THEN [steps |-> 0, d |-> Zero,
                    err |-> ErrorsNew("duration is not positive")]
              ELSE [steps |-> a.val, d |-> p.d, err |-> nil])))

\* the three lines of DayActionInfo's template
DayText(steps, kilometers, calories) ==
    << Line("Kolichestvo shagov", Itoa(steps)),
       Line("Distanciya sostavila", Fmt2f(kilometers)),
       Line("Vy sozhgli", Fmt2f(calories)) >>

\* DayActionInfo ignoring the error of WalkingSpentCalories
DayActionInfoIgnoringError(data, weight, height) ==
    Bind(parsePackage(data), LAMBDA p :
      IF p.err # nil
      THEN [text |-> EmptyString, log |-> Errorf("parsePackage", p.err)]
      ELSE IF p.steps <= 0
      THEN [text |-> EmptyString, log |-> nil]
      ELSE
        Bind2(RDiv(RMul(Int2Rat(p.steps), stepLength), Int2Rat(daysteps_mInKm)),
              WalkingSpentCalories(p.steps, weight, height, p.d),
              LAMBDA kilometers, c :
                [text |-> DayText(p.steps, kilometers, c.value), log |-> nil]))

\* DayActionInfo taking the distance from the stride of the height
DayActionInfoHeightStride(data, weight, height) ==
    Bind(parsePackage(data), LAMBDA p :
      IF p.err # nil
      THEN [text |-> EmptyString, log |-> Errorf("parsePackage", p.err)]
      ELSE IF p.steps <= 0
      THEN [text |-> EmptyString, log |-> nil]
      ELSE
        Bind2(distance(p.steps, height),
              WalkingSpentCalories(p.steps, weight, height, p.d),
              LAMBDA kilometers, c :
                IF c.err # nil
                THEN [text |-> EmptyString,
                      log |-> Errorf("WalkingSpentCalories", c.err)]
                ELSE [text |-> DayText(p.steps, kilometers, c.value),
                      log |-> nil]))

\* text is what is returned, log what log.Printf was given
DayActionInfo(data, weight, height) ==
    Bind(parsePackage(data), LAMBDA p :
      IF p.err # nil
      THEN [text |-> EmptyString, log |-> Errorf("parsePackage", p.err)]
      ELSE IF p.steps <= 0
      THEN [text |-> EmptyString, log |-> nil]
      ELSE
        Bind2(RDiv(RMul(Int2Rat(p.steps), stepLength), Int2Rat(daysteps_mInKm)),
              WalkingSpentCalories(p.steps, weight, height, p.d),
              LAMBDA kilometers, c :
                IF c.err # nil
                THEN [text |-> EmptyString,
                      log |-> Errorf("WalkingSpentCalories", c.err)]
                ELSE [text |-> DayText(p.steps, kilometers, c.value),
                      log |-> nil]))

---------------------------------------------------------------------------
(* The inputs the calls are given. *)

\* generated step counts are 1..MaxSteps
MaxSteps == 3

\* the values of the terms of a generated duration literal are 0..MaxValue
MaxValue == 2

Plavanie == <<"P", "l", "a", "v", "a", "n", "i", "e">>

\* strings.Join(fields, ","), what a caller writes
RECURSIVE Join(_)
Join(fields) ==
    IF fields = <<>> THEN <<>>
    ELSE IF Len(fields) = 1 THEN fields[1]
    ELSE fields[1] \o <<",">> \o Bind(Tail(fields), LAMBDA rest : Join(rest))

StepCounts == (1..MaxSteps) \cup {678, 1000, 3456}

Weights == {Rat(-70, 1), Zero, Rat(70, 1), Rat(75, 1)}

Heights == {Rat(-9, 5), Zero, Rat(7, 4), Rat(9, 5)}

\* -10m, 0, 10m, 50m, 3h in milliseconds
Durations ==
    {Rat(-600000, 1), Zero, Rat(600000, 1), Rat(3000000, 1), Rat(10800000, 1)}

Units == {<<"h">>, <<"m">>, <<"s">>, <<"m", "s">>}

Terms == [v : 0..MaxValue, u : Units]

\* a generated literal is one or two terms
TermSeqs == {<<a>> : a \in Terms} \cup {<<a, b>> : a, b \in Terms}

RECURSIVE FormatTerms(_)
FormatTerms(ts) ==
    IF ts = <<>> THEN <<>>
    ELSE Itoa(Head(ts).v) \o Head(ts).u
           \o Bind(Tail(ts), LAMBDA rest : FormatTerms(rest))

Labels ==
    {Beg, Hodba, Plavanie, <<>>, <<"b", "e", "g">>, <<" ", "B", "e", "g">>,
     <<"B", "e", "g", ",", "x">>}

RawStepsFields ==
    {
      <<>>,
      <<"0">>,
      <<"-", "5">>,
      <<"+", "7">>,
      <<"a", "b", "c">>,
      <<"1", "2", "x">>,
      <<"+">>,
      <<"1", ".", "5">>,
      <<" ", "5">>,
      <<"0", "0">>,
      <<"-", "0">>,
      <<"9", "9", "9", "9", "9", "9", "9", "9", "9", "9", "9", "9", "9", "9", "9", "9", "9", "9", "9", "9">>,
      <<"-", "9", "9", "9", "9", "9", "9", "9", "9", "9", "9", "9", "9", "9", "9", "9", "9", "9", "9", "9", "9">>,
      <<"1", "0", "0", "0">> }

RawDurFields ==
    {
      <<>>,
      <<"0">>,
      <<"-", "0">>,
      <<"+", "0">>,
      <<"-", "1", "h">>,
      <<"+", "1", "h">>,
      <<"1", ".", "5", "h">>,
      <<".", "5", "h">>,
      <<"1", ".", "h">>,
      <<"1", "h", "3", "0">>,
      <<"h">>,
      <<"a", "b", "c">>,
      <<"9", "0">>,
      <<"1", "d">>,
      <<"1", " ", "h">>,
      <<"1", "H">>,
      <<".", "h">>,
      <<"-">>,
      <<"0", "h", "0", "m">>,
      <<"3", "h", "0", "0", "m">>,
      <<"0", "h", "5", "0", "m">>,
      <<"1", "h", "3", "0", "m">>,
      <<"1", "0", "m">>,
      <<"3", "0", "s">>,
      <<"5", "0", "0", "m", "s">>,
      <<"1", "m", "3", "0", "s">>,
      <<"1", "u", "s">>,
      <<"1", "MICRO", "s">>,
      <<"1", "MU", "s">>,
      <<"1", "n", "s">>,
      <<"0", ".", "0", "0", "0", "0", "0", "0", "1", "m", "s">>,
      <<"1", "h", "-", "3", "0", "m">>,
      <<"1", ".", "5", ".", "5", "h">>,
      <<"1", "h", "h">>,
      <<"-", "1", ".", "5", "h">>,
      <<"9", "9", "9", "9", "9", "9", "9", "9", "9", "9", "9", "9", "9", "9", "9", "9", "9", "9", "9", "9", "h">>,
      <<"1", "m", "1">> }

EntryStepsFields ==
    {
      <<"3", "4", "5", "6">>,
      <<"1", "0", "0", "0">>,
      <<"6", "7", "8">>,
      <<"0">>,
      <<"a", "b", "c">> }

EntryDurFields ==
    {
      <<"3", "h", "0", "0", "m">>,
      <<"1", "0", "m">>,
      <<"0", "h", "5", "0", "m">>,
      <<"0">>,
      <<"-", "1", "h">>,
      <<"3", "0", "s">>,
      <<"1", ".", "5", "h">>,
      <<"a", "b", "c">>,
      <<"9", "0">> }

EntryLabels == {Beg, Hodba, Plavanie, <<>>}

NoSrc == [formatted |-> FALSE, s |-> 0, label |-> <<>>, terms |-> <<>>]

Formatted(s, label, terms) ==
    [formatted |-> TRUE, s |-> s, label |-> label, terms |-> terms]

\* records with the wrong number of fields, for either parser
OddData ==
    {<<>>, <<"1", "0", "0", "0">>, <<",">>, <<",", ",">>, <<",", ",", ",">>,
     Join(<<Itoa(1000), Beg, FormatTerms(<<[v |-> 1, u |-> <<"h">>]>>), <<"x">>>>),
     Join(<<<<"a", "b", "c">>, <<"x">>, <<"y">>, <<"z">>>>)}

PackageInputs ==
    {[data |-> Join(<<Itoa(s), FormatTerms(ts)>>), src |-> Formatted(s, <<>>, ts)] :
        s \in StepCounts, ts \in TermSeqs}
    \cup {[data |-> Join(<<f, g>>), src |-> NoSrc] :
            f \in RawStepsFields, g \in RawDurFields}
    \cup {[data |-> Join(<<f, l, g>>), src |-> NoSrc] :
            f \in EntryStepsFields, l \in EntryLabels, g \in EntryDurFields}
    \cup {[data |-> x, src |-> NoSrc] : x \in OddData}

TrainingInputs ==
    {[data |-> Join(<<Itoa(s), l, FormatTerms(ts)>>), src |-> Formatted(s, l, ts)] :
        s \in StepCounts, l \in Labels, ts \in TermSeqs}
    \cup {[data |-> Join(<<f, l, g>>), src |-> NoSrc] :
            f \in RawStepsFields, l \in {Beg, Plavanie}, g \in RawDurFields}
    \cup {[data |-> Join(<<f, g>>), src |-> NoSrc] :
            f \in EntryStepsFields, g \in EntryDurFields}
    \cup {[data |-> x, src |-> NoSrc] : x \in OddData}

EntryTrainingData ==
    {Join(<<f, l, g>>) : f \in EntryStepsFields, l \in EntryLabels, g \in EntryDurFields}
    \cup {Join(<<f, g>>) : f \in {<<"3", "4", "5", "6">>}, g \in {<<"3", "h">>}}
    \cup OddData

EntryPackageData ==
    {Join(<<f, g>>) : f \in EntryStepsFields, g \in EntryDurFields}
    \cup {Join(<<f, l, g>>) : f \in {<<"6", "7", "8">>}, l \in {Hodba}, g \in {<<"5", "0", "m">>}}
    \cup OddData

---------------------------------------------------------------------------
(* The program holds no state between calls: a caller calls one function   *)
(* with its arguments (call) and gets its results (ret), then returns to   *)
(* where any function may be called again.                                 *)

NoCall ==
    [fn |-> "none", data |-> <<>>, src |-> NoSrc, steps |-> 0,
     weight |-> Zero, height |-> Zero, duration |-> Zero]

NoRet ==
    [steps |-> 0, activity |-> <<>>, d |-> Zero, value |-> Zero,
     text |-> EmptyString, err |-> nil, log |-> nil]

Init ==
    /\ pc = "idle"
    /\ call = NoCall
    /\ ret = NoRet

ParsePackageCall ==
    /\ pc = "idle"
    /\ \E in \in PackageInputs :
         LET r == parsePackage(in.data)
         IN  /\ call' = [NoCall EXCEPT !.fn = "parsePackage",
                                       !.data = in.data, !.src = in.src]
             /\ ret' = [NoRet EXCEPT !.steps = r.steps, !.d = r.d,
                                     !.err = r.err]
    /\ pc' = "returned"

ParseTrainingCall ==
    /\ pc = "idle"
    /\ \E in \in TrainingInputs :
         LET r == parseTraining(in.data)
         IN  /\ call' = [NoCall EXCEPT !.fn = "parseTraining",
                                       !.data = in.data, !.src = in.src]
             /\ ret' = [NoRet EXCEPT !.steps = r.steps,
                                     !.activity = r.activity, !.d = r.d,
                                     !.err = r.err]
    /\ pc' = "returned"

DistanceCall ==
    /\ pc = "idle"
    /\ \E steps \in StepCounts \cup {-1, 0}, height \in Heights :
         /\ call' = [NoCall EXCEPT !.fn = "distance", !.steps = steps,
                                   !.height = height]
         /\ ret' = [NoRet EXCEPT !.value = distance(steps, height)]
    /\ pc' = "returned"

MeanSpeedCall ==
    /\ pc = "idle"
    /\ \E steps \in StepCounts \cup {-1, 0}, height \in Heights,
          duration \in Durations :
         /\ call' = [NoCall EXCEPT !.fn = "meanSpeed", !.steps = steps,
                                   !.height = height, !.duration = duration]
         /\ ret' = [NoRet EXCEPT !.value = meanSpeed(steps, height, duration)]
    /\ pc' = "returned"

RunningSpentCaloriesCall ==
    /\ pc = "idle"
    /\ \E steps \in StepCounts \cup {-1, 0}, weight \in Weights,
          height \in Heights, duration \in Durations :
         LET r == RunningSpentCalories(steps, weight, height, duration)
         IN  /\ call' = [NoCall EXCEPT !.fn = "RunningSpentCalories",
                                       !.steps = steps, !.weight = weight,
                                       !.height = height,
                                       !.duration = duration]
             /\ ret' = [NoRet EXCEPT !.value = r.value, !.err = r.err]
    /\ pc' = "returned"

WalkingSpentCaloriesCall ==
    /\ pc = "idle"
    /\ \E steps \in StepCounts \cup {-1, 0}, weight \in Weights,
          height \in Heights, duration \in Durations :
         LET r == WalkingSpentCalories(steps, weight, height, duration)
         IN  /\ call' = [NoCall EXCEPT !.fn = "WalkingSpentCalories",
                                       !.steps = steps, !.weight = weight,
                                       !.height = height,
                                       !.duration = duration]
             /\ ret' = [NoRet EXCEPT !.value = r.value, !.err = r.err]
    /\ pc' = "returned"

TrainingInfoCall ==
    /\ pc = "idle"
    /\ \E data \in EntryTrainingData, weight \in Weights, height \in Heights :
         LET r == TrainingInfo(data, weight, height)
         IN  /\ call' = [NoCall EXCEPT !.fn = "TrainingInfo", !.data = data,
                                       !.weight = weight, !.height = height]
             /\ ret' = [NoRet EXCEPT !.text = r.text, !.err = r.err]
    /\ pc' = "returned"

DayActionInfoCall ==
    /\ pc = "idle"
    /\ \E data \in EntryPackageData, weight \in Weights, height \in Heights :
         LET r == DayActionInfo(data, weight, height)
         IN  /\ call' = [NoCall EXCEPT !.fn = "DayActionInfo", !.data = data,
                                       !.weight = weight, !.height = height]
             /\ ret' = [NoRet EXCEPT !.text = r.text, !.log = r.log]
    /\ pc' = "returned"

\* the caller has the results; nothing is kept for the next call
Return ==
    /\ pc = "returned"
    /\ pc' = "idle"
    /\ call' = NoCall
    /\ ret' = NoRet

Next ==
    \/ ParsePackageCall
    \/ ParseTrainingCall
    \/ DistanceCall
    \/ MeanSpeedCall
    \/ RunningSpentCaloriesCall
    \/ WalkingSpentCaloriesCall
    \/ TrainingInfoCall
    \/ DayActionInfoCall
    \/ Return

Spec == Init /\ [][Next]_vars

---------------------------------------------------------------------------
(* The vocabulary of the specification, for the properties below.          *)

Returned(fn) == pc = "returned" /\ call.fn = fn

Positive(x) == x.n > 0

\* the error kinds of the specification, by the messages the source gives
FormatMsgs ==
    {"bad data format", "failed to extract steps", "failed to extract duration"}

RangeMsgs ==
    {"steps is not positive", "steps must be positive",
     "duration is not positive", "weight is not positive",
     "height is not positive"}

UnknownActivityMsgs == {"unknown training type"}

Kind(err) ==
    IF err = nil THEN "none"
    ELSE IF \E i \in 1..Len(err) : err[i] \in FormatMsgs THEN "FormatError"
    ELSE IF \E i \in 1..Len(err) : err[i] \in RangeMsgs THEN "RangeError"
    ELSE IF \E i \in 1..Len(err) : err[i] \in UnknownActivityMsgs
    THEN "UnknownActivityError"
    ELSE "other"

StageNames == {"parseTraining", "RunningSpentCalories", "WalkingSpentCalories"}

\* the formulas of the specification's Metrics Calculator
SpecDistance(steps, height) ==
    RDiv(RMul(Int2Rat(steps), RMul(height, Rat(45, 100))), Int2Rat(1000))

SpecMeanSpeed(steps, height, d) ==
    RDiv(SpecDistance(steps, height), RDiv(d, Int2Rat(3600000)))

SpecRunning(steps, weight, height, d) ==
    RDiv(RMul(RMul(weight, SpecMeanSpeed(steps, height, d)),
              RDiv(d, Int2Rat(60000))),
         Int2Rat(60))

SpecWalking(steps, weight, height, d) ==
    RMul(SpecRunning(steps, weight, height, d), Rat(1, 2))

\* the fields of a record, read off the raw string
FieldCount(data) == 1 + Cardinality({i \in 1..Len(data) : data[i] = ","})

FirstField(data) ==
    SubSeq(data, 1,
           CHOOSE k \in 0..Len(data) :
             /\ \A j \in 1..k : data[j] # ","
             /\ k < Len(data) => data[k + 1] = ",")

LastField(data) ==
    SubSeq(data,
           1 + (CHOOSE k \in 0..Len(data) :
                  /\ \A j \in (k + 1)..Len(data) : data[j] # ","
                  /\ k > 0 => data[k] = ","),
           Len(data))

Unsigned(f) == IF f # <<>> /\ f[1] \in {"+", "-"} THEN Tail(f) ELSE f

SignificantDigits(f) ==
    Cardinality({i \in 1..Len(f) : \E j \in 1..i : f[j] # "0"})

\* a decimal integer that fits the int of the source
IsInteger(f) ==
    /\ Unsigned(f) # <<>>
    /\ \A i \in 1..Len(Unsigned(f)) : Unsigned(f)[i] \in Digits
    /\ SignificantDigits(Unsigned(f)) <= 18

\* an integer <= 0
NonPositiveInteger(f) ==
    /\ IsInteger(f)
    /\ f[1] = "-" \/ \A i \in 1..Len(Unsigned(f)) : Unsigned(f)[i] = "0"

ParserCall == Returned("parsePackage") \/ Returned("parseTraining")

ExpectedFields == IF call.fn = "parsePackage" THEN 2 ELSE 3

\* the record has the parser's shape and a positive step count
StepsAccepted ==
    /\ FieldCount(call.data) = ExpectedFields
    /\ IsInteger(FirstField(call.data))
    /\ ~NonPositiveInteger(FirstField(call.data))

\* the grammar the specification states: one or more <integer><h or m>
SpecGrammar(f) ==
    /\ f # <<>>
    /\ f[1] \in Digits
    /\ f[Len(f)] \in {"h", "m"}
    /\ \A i \in 1..Len(f) : f[i] \in Digits \cup {"h", "m"}
    /\ \A i \in 2..Len(f) : f[i] \in {"h", "m"} => f[i - 1] \in Digits

UnitNames ==
    {<<"n", "s">>, <<"u", "s">>, <<"MICRO", "s">>, <<"MU", "s">>,
     <<"m", "s">>, <<"s">>, <<"m">>, <<"h">>}

\* s is one or more terms: a decimal number with at least one digit (no
\* more than 18 significant ones before the point) and a unit of UnitNames
RECURSIVE GoTerms(_)
GoTerms(s) ==
    \E ni \in 0..Len(s), nf \in 0..Len(s), dot \in 0..1, nu \in 1..Len(s) :
        /\ ni + dot + nf + nu <= Len(s)
        /\ ni + nf > 0
        /\ dot = 0 => nf = 0
        /\ \A i \in 1..ni : s[i] \in Digits
        /\ SignificantDigits(SubSeq(s, 1, ni)) <= 18
        /\ dot = 1 => s[ni + 1] = "."
        /\ \A i \in (ni + dot + 1)..(ni + dot + nf) : s[i] \in Digits
        /\ SubSeq(s, ni + dot + nf + 1, ni + dot + nf + nu) \in UnitNames
        /\ LET rest == Drop(s, ni + dot + nf + nu)
           IN  \/ rest = <<>>
               \/ /\ rest[1] \in Digits \cup {"."}
                  /\ GoTerms(rest)

\* the grammar of time.ParseDuration
GoGrammar(f) == Unsigned(f) = <<"0">> \/ GoTerms(Unsigned(f))

UnitMs(u) ==
    CASE u = <<"h">> -> 3600000
      [] u = <<"m">> -> 60000
      [] u = <<"s">> -> 1000
      [] u = <<"m", "s">> -> 1

\* the span a generated literal denotes, in milliseconds
RECURSIVE TermsValue(_)
TermsValue(ts) ==
    IF ts = <<>> THEN 0
    ELSE Head(ts).v * UnitMs(Head(ts).u) + TermsValue(Tail(ts))

\* the duration fields of RawDurFields and EntryDurFields that are in the
\* grammar of time.ParseDuration and denote a span <= 0
NonPositiveRaw ==
    {<<"0">>, <<"-", "0">>, <<"+", "0">>, <<"-", "1", "h">>,
     <<"0", "h", "0", "m">>, <<"-", "1", ".", "5", "h">>,
     <<"0", ".", "0", "0", "0", "0", "0", "0", "1", "m", "s">>}

NonPositiveSpan ==
    IF call.src.formatted THEN TermsValue(call.src.terms) <= 0
    ELSE LastField(call.data) \in NonPositiveRaw

---------------------------------------------------------------------------
(* Properties *)

\* C1: DayActionInfo never surfaces an error: its result is the empty
\* string exactly when parsing the record fails or weight <= 0 or
\* height <= 0, and a report (non-empty) otherwise.
C1_DayActionInfoSwallowsErrors ==
    Returned("DayActionInfo") =>
        /\ ret.text = EmptyString <=>
             \/ parsePackage(call.data).err # nil
             \/ ~Positive(call.weight)
             \/ ~Positive(call.height)
        /\ ret.text = EmptyString /\ parsePackage(call.data).err # nil =>
             ret.log = Errorf("parsePackage", parsePackage(call.data).err)

\* a valid record with height <= 0: the calculation fails, the error is
\* logged and the result is the empty string
C1_Witness ==
    /\ Returned("DayActionInfo")
    /\ parsePackage(call.data).err = nil
    /\ Positive(call.weight)
    /\ ~Positive(call.height)
    /\ ret.text = EmptyString
    /\ ret.log = <<"WalkingSpentCalories", "height is not positive">>

\* C2: TrainingInfo dispatches on the parsed label: Beg reports the
\* calories of the running formula (and fails only as the running stage),
\* Hodba those of the walking formula (and fails only as the walking
\* stage), any other label fails with an UnknownActivityError and an
\* empty report whatever weight and height are.
C2_DispatchByLabel ==
    Returned("TrainingInfo") /\ parseTraining(call.data).err = nil =>
        LET t == parseTraining(call.data)
        IN  /\ t.activity = Beg =>
                 IF ret.err = nil
                 THEN ret.text[5].value =
                        Fmt2f(SpecRunning(t.steps, call.weight, call.height, t.d))
                 ELSE Head(ret.err) = "RunningSpentCalories"
            /\ t.activity = Hodba =>
                 IF ret.err = nil
                 THEN ret.text[5].value =
                        Fmt2f(SpecWalking(t.steps, call.weight, call.height, t.d))
                 ELSE Head(ret.err) = "WalkingSpentCalories"
            /\ t.activity \notin {Beg, Hodba} =>
                 /\ ret.text = EmptyString
                 /\ Kind(ret.err) = "UnknownActivityError"

\* "3456,Beg,3h00m" with weight 75 and height 1.8 succeeds with the running
\* calories, which are not the walking ones
C2_Witness ==
    /\ Returned("TrainingInfo")
    /\ call.data = Join(<<Itoa(3456), Beg, <<"3", "h", "0", "0", "m">>>>)
    /\ call.weight = Rat(75, 1)
    /\ call.height = Rat(9, 5)
    /\ ret.err = nil
    /\ ret.text[5].value = <<"2", "0", "9", ".", "9", "5">>
    /\ ret.text[5].value #
         Fmt2f(SpecWalking(3456, call.weight, call.height, Rat(10800000, 1)))

\* C3 as stated: every failure of TrainingInfo returns the empty string and
\* an error wrapped with the name of the failing stage around its cause;
\* every success a non-empty report and a nil error.
C3_EveryFailureWrapped ==
    Returned("TrainingInfo") =>
        /\ ret.err = nil <=> ret.text # EmptyString
        /\ ret.err # nil =>
             /\ Head(ret.err) \in StageNames
             /\ Tail(ret.err) # nil

\* C3 amended: a failure of parseTraining or of the calorie function is
\* wrapped with that stage's name around the stage's own error; the failure
\* of the dispatch itself (an unknown label) is the bare error "unknown
\* training type", wrapped in nothing.  The report is empty exactly when the
\* error is not nil.
C3_StageFailuresWrapped ==
    Returned("TrainingInfo") =>
        LET t == parseTraining(call.data)
        IN  /\ ret.err = nil <=> ret.text # EmptyString
            /\ t.err # nil => ret.err = <<"parseTraining">> \o t.err
            /\ t.err = nil /\ t.activity \notin {Beg, Hodba} =>
                 ret.err = <<"unknown training type">>
            /\ t.err = nil /\ t.activity = Beg /\ ret.err # nil =>
                 /\ Head(ret.err) = "RunningSpentCalories"
                 /\ Tail(ret.err) =
                      RunningSpentCalories(t.steps, call.weight, call.height, t.d).err
                 /\ Tail(ret.err) # nil
            /\ t.err = nil /\ t.activity = Hodba /\ ret.err # nil =>
                 /\ Head(ret.err) = "WalkingSpentCalories"
                 /\ Tail(ret.err) =
                      WalkingSpentCalories(t.steps, call.weight, call.height, t.d).err
                 /\ Tail(ret.err) # nil

\* a failed Atoi inside parseTraining: two wrappers around the cause
C3_Witness ==
    /\ Returned("TrainingInfo")
    /\ ret.text = EmptyString
    /\ ret.err = <<"parseTraining", "failed to extract steps",
                   "strconv.Atoi: invalid syntax">>

\* C4: both parsers classify shape and step-count errors alike, and before
\* the duration field is looked at: a wrong field count is a FormatError
\* ("bad data format"); else a first field that is no integer (of the
\* source's int) is a FormatError; else an integer <= 0 is a RangeError.
C4_StepsErrorsFirst ==
    ParserCall =>
        LET f == FirstField(call.data)
            shaped == FieldCount(call.data) = ExpectedFields
        IN  /\ ~shaped => ret.err = <<"bad data format">>
            /\ shaped /\ ~IsInteger(f) =>
                 /\ Kind(ret.err) = "FormatError"
                 /\ Head(ret.err) = "failed to extract steps"
            /\ shaped /\ NonPositiveInteger(f) =>
                 /\ Kind(ret.err) = "RangeError"
                 /\ ret.err \in {<<"steps is not positive">>,
                                 <<"steps must be positive">>}

\* steps 0 and a duration field that does not parse: the error is the
\* RangeError of the steps
C4_Witness ==
    /\ Returned("parseTraining")
    /\ call.data = Join(<<<<"0">>, Beg, <<"a", "b", "c">>>>)
    /\ ret.err = <<"steps is not positive">>

\* C5 as stated: with a well-shaped record and a positive step count, only
\* a duration field of the grammar "one or more <integer><h or m>" is
\* accepted: any other field (another unit, a fraction, no unit) fails, with
\* a FormatError, or with a RangeError when it is read as a span <= 0.
C5_OnlyHoursAndMinutes ==
    ParserCall /\ StepsAccepted =>
        LET g == LastField(call.data)
        IN  /\ ~SpecGrammar(g) =>
                 \/ Kind(ret.err) = "FormatError"
                 \/ Kind(ret.err) = "RangeError" /\ NonPositiveSpan
            /\ SpecGrammar(g) /\ NonPositiveSpan => Kind(ret.err) = "RangeError"

\* C5 amended: the duration field follows the grammar of time.ParseDuration
\* (an optional sign, then "0" or one or more terms, a term a decimal number
\* with an optional fraction and a unit among ns, us, the two micro-s, ms, s,
\* m, h), so seconds, milliseconds and fractions are accepted.  A field
\* outside that grammar fails with a FormatError; one inside it fails with
\* a RangeError when its span is <= 0 and is accepted otherwise.
C5_ParseDurationGrammar ==
    ParserCall /\ StepsAccepted =>
        LET g == LastField(call.data)
        IN  /\ ~GoGrammar(g) =>
                 /\ Kind(ret.err) = "FormatError"
                 /\ Head(ret.err) = "failed to extract duration"
            /\ GoGrammar(g) /\ NonPositiveSpan =>
                 /\ Kind(ret.err) = "RangeError"
                 /\ ret.err = <<"duration is not positive">>
            /\ GoGrammar(g) /\ ~NonPositiveSpan => ret.err = nil

\* "1.5h" is accepted as an hour and a half
C5_Witness ==
    /\ Returned("parsePackage")
    /\ LastField(call.data) = <<"1", ".", "5", "h">>
    /\ ret.err = nil
    /\ ret.d = Rat(5400000, 1)

\* C6 as stated: for every positive s, every positive duration literal d
\* and every label, parsing the formatted record succeeds and yields
\* exactly s, the label and the span of d.
C6_LeftInverse ==
    ParserCall /\ call.src.formatted /\ TermsValue(call.src.terms) > 0 =>
        /\ ret.err = nil
        /\ ret.steps = call.src.s
        /\ ret.activity = call.src.label
        /\ ret.d = Int2Rat(TermsValue(call.src.terms))

\* C6 amended: the same for every label that holds no comma (a label with a
\* comma changes the field count and the record is rejected), every positive
\* s that fits the source's int and every positive literal of
\* time.ParseDuration whose span fits a Duration.
C6_LeftInverseNoComma ==
    /\ ParserCall /\ call.src.formatted /\ TermsValue(call.src.terms) > 0
         /\ (\A i \in 1..Len(call.src.label) : call.src.label[i] # ",") =>
           /\ ret.err = nil
           /\ ret.steps = call.src.s
           /\ ret.activity = call.src.label
           /\ ret.d = Int2Rat(TermsValue(call.src.terms))
    /\ ParserCall /\ call.src.formatted
         /\ (\E i \in 1..Len(call.src.label) : call.src.label[i] = ",") =>
           ret.err = <<"bad data format">>

\* "2,Plavanie,1h2m" parses to 2, the label as written, and 62 minutes
C6_Witness ==
    /\ Returned("parseTraining")
    /\ call.src = Formatted(2, Plavanie,
                            <<[v |-> 1, u |-> <<"h">>], [v |-> 2, u |-> <<"m">>]>>)
    /\ ret.err = nil
    /\ ret.steps = 2
    /\ ret.activity = Plavanie
    /\ ret.d = Rat(3720000, 1)

\* C7: for steps, weight, height and duration all > 0, WalkingSpentCalories
\* returns (weight x meanSpeed x minutes / 60) x 0.5 and no error, which is
\* exactly half of what RunningSpentCalories returns for the same inputs;
\* for 1000 steps, 70 kg, 1.75 m and 10 minutes it is 27.5625.
C7_WalkingIsHalfRunning ==
    Returned("WalkingSpentCalories") /\ call.steps > 0 /\ Positive(call.weight)
      /\ Positive(call.height) /\ Positive(call.duration) =>
        LET run == RunningSpentCalories(call.steps, call.weight, call.height,
                                        call.duration)
        IN  /\ ret.err = nil
            /\ ret.value = SpecWalking(call.steps, call.weight, call.height,
                                       call.duration)
            /\ run.err = nil
            /\ RMul(ret.value, Int2Rat(2)) = run.value
            /\ run.value = SpecRunning(call.steps, call.weight, call.height,
                                       call.duration)
            /\ call.steps = 1000 /\ call.weight = Rat(70, 1)
                 /\ call.height = Rat(7, 4) /\ call.duration = Rat(600000, 1) =>
                 ret.value = Rat(275625, 10000)

\* the worked example of the specification
C7_Witness ==
    /\ Returned("WalkingSpentCalories")
    /\ call.steps = 1000
    /\ call.weight = Rat(70, 1)
    /\ call.height = Rat(7, 4)
    /\ call.duration = Rat(600000, 1)
    /\ ret.err = nil
    /\ Fmt2f(ret.value) = <<"2", "7", ".", "5", "6">>

\* C8: whenever TrainingInfo returns a report and a nil error, whatever
\* weight and height were passed, the distance, the mean speed and the
\* calories it reports are >= 0 (none is written with a minus sign).
C8_ReportedMetricsNonNegative ==
    Returned("TrainingInfo") /\ ret.err = nil =>
        \A i \in {3, 4, 5} : Head(ret.text[i].value) # "-"

\* C9 as stated: both entry points report distance(steps, height) =
\* steps x (height x 0.45) / 1000, so the same distance for the same steps
\* and height.
C9_SameDistance ==
    /\ Returned("TrainingInfo") /\ ret.err = nil =>
         ret.text[3].value =
           Fmt2f(SpecDistance(parseTraining(call.data).steps, call.height))
    /\ Returned("DayActionInfo") /\ ret.text # EmptyString =>
         ret.text[2].value =
           Fmt2f(SpecDistance(parsePackage(call.data).steps, call.height))

\* C9 amended: TrainingInfo reports distance(steps, height) =
\* steps x (height x 0.45) / 1000; DayActionInfo reports steps x 0.65 / 1000,
\* a fixed stride of 0.65 m, which does not depend on height.
C9_DayDistanceFixedStride ==
    /\ Returned("TrainingInfo") /\ ret.err = nil =>
         ret.text[3].value =
           Fmt2f(SpecDistance(parseTraining(call.data).steps, call.height))
    /\ Returned("DayActionInfo") /\ ret.text # EmptyString =>
         ret.text[2].value =
           Fmt2f(RDiv(RMul(Int2Rat(parsePackage(call.data).steps), Rat(65, 100)),
                      Int2Rat(1000)))

\* 678 steps at height 1.75: 0.44 km is reported, distance(678, 1.75) is 0.53
C9_Witness ==
    /\ Returned("DayActionInfo")
    /\ call.data = Join(<<Itoa(678), <<"0", "h", "5", "0", "m">>>>)
    /\ call.height = Rat(7, 4)
    /\ call.weight = Rat(70, 1)
    /\ ret.text[2].value = <<"0", ".", "4", "4">>
    /\ Fmt2f(SpecDistance(678, call.height)) = <<"0", ".", "5", "3">>

\* C10: meanSpeed is exactly 0 whenever duration <= 0; so with steps, weight
\* and height > 0 and duration <= 0 WalkingSpentCalories returns 0 and no
\* error, where RunningSpentCalories fails with a RangeError.
C10_NonPositiveDuration ==
    /\ Returned("meanSpeed") /\ ~Positive(call.duration) => ret.value = Zero
    /\ Returned("WalkingSpentCalories") /\ call.steps > 0
         /\ Positive(call.weight) /\ Positive(call.height)
         /\ ~Positive(call.duration) =>
           /\ ret.err = nil
           /\ ret.value = Zero
           /\ Kind(RunningSpentCalories(call.steps, call.weight, call.height,
                                        call.duration).err) = "RangeError"
    /\ Returned("RunningSpentCalories") /\ call.steps > 0
         /\ Positive(call.weight) /\ Positive(call.height)
         /\ ~Positive(call.duration) =>
           ret.err = <<"duration is not positive">>

\* walking for minus ten minutes: 0 calories, no error
C10_Witness ==
    /\ Returned("WalkingSpentCalories")
    /\ call.steps = 1000
    /\ call.weight = Rat(70, 1)
    /\ call.height = Rat(7, 4)
    /\ call.duration = Rat(-600000, 1)
    /\ ret.err = nil
    /\ ret.value = Zero

====
